---------------------------- MODULE Spec2Model ----------------------------
(***************************************************************************)
(* Model of the note-taking REST API (src/api.py) over the Note store      *)
(* (src/models.py).                                                        *)
(*                                                                         *)
(* Strings are sequences of one-character strings, so that strip, lower,   *)
(* split and SQL LIKE are computed character by character.  The Python     *)
(* value None (and SQL NULL, and an absent JSON key) is the sentinel None. *)
(* Timestamps are readings of a clock that never runs backwards.           *)
(***************************************************************************)
EXTENDS Integers, Sequences, FiniteSets, TLC

VARIABLES
    notes,   \* the rows of table 'notes': a set of Note records
    now,     \* the last value datetime.utcnow() returned
    resp,    \* the last request handled and the response given to it
    requests \* the requests two clients have in flight at the same time

vars == <<notes, now, resp, requests>>

(***************************************************************************)
(* Bounds of the model.                                                    *)
(***************************************************************************)
MaxNotes == 2      \* rows the table holds at most
MaxClock == 3      \* largest clock reading

NoteIds == 1..MaxNotes

(***************************************************************************)
(* Values.                                                                 *)
(***************************************************************************)
None == <<"None">>

Fields == {"title", "content", "tags"}

\* Python truthiness of an optional string: neither None nor ''.
Truthy(s) == s # None /\ s # <<>>

\* dict.get(key): the value, or None when the key is absent.
Get(data, key) == IF key \in DOMAIN data THEN data[key] ELSE None

(***************************************************************************)
(* str.strip(), str.lower(), str.split(','), sorted().                     *)
(***************************************************************************)
RECURSIVE LStrip(_)
LStrip(s) == IF s # <<>> /\ Head(s) = " " THEN LStrip(Tail(s)) ELSE s

RECURSIVE RStrip(_)
RStrip(s) ==
    IF s # <<>> /\ s[Len(s)] = " " THEN RStrip(SubSeq(s, 1, Len(s) - 1)) ELSE s

strip(s) == RStrip(LStrip(s))

LowerChar(c) ==
    CASE c = "A" -> "a"
      [] c = "B" -> "b"
      [] c = "X" -> "x"
      [] c = "Y" -> "y"
      [] OTHER -> c

lower(s) == [i \in 1..Len(s) |-> LowerChar(s[i])]

RECURSIVE SplitFrom(_, _, _)
SplitFrom(s, cur, acc) ==
    IF s = <<>> THEN Append(acc, cur)
    ELSE IF Head(s) = "," THEN SplitFrom(Tail(s), <<>>, Append(acc, cur))
    ELSE SplitFrom(Tail(s), Append(cur, Head(s)), acc)

\* s.split(','): the sequence of tokens, empty tokens included.
split(s) == SplitFrom(s, <<>>, <<>>)

\* Code point of a character (Python compares strings by code point).
Ord(c) ==
    CASE c = " " -> 32
      [] c = "%" -> 37
      [] c = "," -> 44
      [] c = "A" -> 65
      [] c = "B" -> 66
      [] c = "X" -> 88
      [] c = "Y" -> 89
      [] c = "_" -> 95
      [] c = "a" -> 97
      [] c = "b" -> 98
      [] c = "x" -> 120
      [] c = "y" -> 121

RECURSIVE StrLess(_, _)
StrLess(s, t) ==
    IF t = <<>> THEN FALSE
    ELSE IF s = <<>> THEN TRUE
    ELSE IF Head(s) = Head(t) THEN StrLess(Tail(s), Tail(t))
    ELSE Ord(Head(s)) < Ord(Head(t))

RECURSIVE sorted(_)
sorted(S) ==
    IF S = {} THEN <<>>
    ELSE LET m == CHOOSE x \in S : \A y \in S \ {x} : StrLess(x, y)
         IN  <<m>> \o sorted(S \ {m})

(***************************************************************************)
(* SQL: x ILIKE pattern, which SQLite evaluates as                         *)
(* lower(x) LIKE lower(pattern); '%' matches any run of characters, '_'    *)
(* any one character, and there is no escape character.                    *)
(***************************************************************************)
RECURSIVE Like(_, _)
Like(s, p) ==
    IF p = <<>> THEN s = <<>>
    ELSE IF Head(p) = "%" THEN
        Like(s, Tail(p)) \/ (s # <<>> /\ Like(Tail(s), p))
    ELSE IF Head(p) = "_" THEN
        s # <<>> /\ Like(Tail(s), Tail(p))
    ELSE
        s # <<>> /\ Head(s) = Head(p) /\ Like(Tail(s), Tail(p))

\* A NULL operand makes the comparison NULL, which filter() treats as false.
ilike(x, pattern) == x # None /\ Like(lower(x), lower(pattern))

(***************************************************************************)
(* The clock.  A request is handled at least one clock unit after every    *)
(* reading taken for the requests before it; a further reading within the  *)
(* same request may return the same value again or a later one.            *)
(***************************************************************************)
FirstReading(t) == {u \in {t + 1} : u <= MaxClock}

utcnow(t) == {u \in {t, t + 1} : u <= MaxClock}

(***************************************************************************)
(* The Note store (src/models.py).                                         *)
(***************************************************************************)
\* Integer primary key of a new row: SQLite gives max(id) + 1.
NewId(rows) ==
    IF rows = {} THEN 1
    ELSE (CHOOSE i \in {r.id : r \in rows} : \A r \in rows : r.id <= i) + 1

\* The row a session INSERTs: each of the two timestamp columns takes its
\* own default, a separate call of datetime.utcnow.
Note(id, title, content, tags, created, updated) ==
    [id |-> id, title |-> title, content |-> content, tags |-> tags,
     created_at |-> created, updated_at |-> updated]

\* A variant of Note_create_note that hands the two readings to the wrong
\* columns.
Note_create_note_Swapped(rows, title, content, tags, created, updated) ==
    rows \cup {Note(NewId(rows), title, content, tags, updated, created)}

Note_create_note(rows, title, content, tags, created, updated) ==
    rows \cup {Note(NewId(rows), title, content, tags, created, updated)}

\* The row with the id, as a set: empty when there is none.
Note_get_note_by_id(rows, note_id) == {r \in rows : r.id = note_id}

\* ORDER BY created_at DESC: every order of the rows in which created_at
\* never increases (SQL leaves the order of equal keys open).
OrderByCreatedDesc(rows) ==
    {q \in [1..Cardinality(rows) -> rows] :
        /\ \A i, j \in DOMAIN q : i # j => q[i] # q[j]
        /\ \A i, j \in DOMAIN q : i < j => q[i].created_at >= q[j].created_at}

Note_get_all_notes(rows) == rows

\* A variant of Note_update_note that refreshes created_at as well.
Note_update_note_Recreate(rows, note_id, title, content, tags, t) ==
    {IF r.id = note_id
        THEN [r EXCEPT !.title = IF title # None THEN title ELSE @,
                       !.content = IF content # None THEN content ELSE @,
                       !.tags = IF tags # None THEN tags ELSE @,
                       !.created_at = t,
                       !.updated_at = t]
        ELSE r : r \in rows}

Note_update_note(rows, note_id, title, content, tags, t) ==
    {IF r.id = note_id
        THEN [r EXCEPT !.title = IF title # None THEN title ELSE @,
                       !.content = IF content # None THEN content ELSE @,
                       !.tags = IF tags # None THEN tags ELSE @,
                       !.updated_at = t]
        ELSE r : r \in rows}

\* A variant of Note_delete_note whose DELETE never reaches the table.
Note_delete_note_Uncommitted(rows, note_id) == rows

Note_delete_note(rows, note_id) == {r \in rows : r.id # note_id}

\* A variant of Note_delete_note_returns without the final return False.
Note_delete_note_returns_Always(rows, note_id) == TRUE

\* What Note.delete_note returns: True when it found the row, else False.
Note_delete_note_returns(rows, note_id) ==
    Note_get_note_by_id(rows, note_id) # {}

Note_search_notes(rows, search_term) ==
    LET search_pattern == <<"%">> \o search_term \o <<"%">>
    IN  {r \in rows : ilike(r.title, search_pattern)
                        \/ ilike(r.content, search_pattern)}

Note_get_notes_by_tag(rows, tag) ==
    LET tag_pattern == <<"%">> \o tag \o <<"%">>
    IN  {r \in rows : ilike(r.tags, tag_pattern)}

(***************************************************************************)
(* The handlers (src/api.py).                                              *)
(***************************************************************************)
NoBody == [k \in {} |-> None]

Response(op, note_id, data, search, tag, status, error, errors, message, found, tags) ==
    [op |-> op, note_id |-> note_id, body |-> data, search |-> search,
     tag |-> tag, status |-> status, error |-> error, errors |-> errors,
     message |-> message, data |-> found, count |-> Len(found),
     tags |-> tags]

Blank(v) == ~Truthy(v) \/ strip(v) = <<>>

\* A variant of validate_note_data that stops at the first failing field.
validate_note_data_FirstOnly(data) ==
    IF Blank(Get(data, "title")) THEN <<"Title is required">>
    ELSE IF Blank(Get(data, "content")) THEN <<"Content is required">>
    ELSE <<>>

validate_note_data(data) ==
    (IF Blank(Get(data, "title")) THEN <<"Title is required">> ELSE <<>>)
    \o (IF Blank(Get(data, "content")) THEN <<"Content is required">> ELSE <<>>)

\* The arguments the POST handler passes to Note.create_note.
CreateTags(data) ==
    IF Truthy(Get(data, "tags")) THEN strip(Get(data, "tags")) ELSE None

create_note(data) ==
    IF DOMAIN data = {} THEN
        /\ resp' = Response("create_note", 0, data, None, None, 400,
                            "No data provided", <<>>, "", <<>>, <<>>)
        /\ UNCHANGED <<notes, now>>
    ELSE IF validate_note_data(data) # <<>> THEN
        /\ resp' = Response("create_note", 0, data, None, None, 400,
                            "", validate_note_data(data), "", <<>>, <<>>)
        /\ UNCHANGED <<notes, now>>
    ELSE
        /\ Cardinality(notes) < MaxNotes
        /\ \E created \in FirstReading(now) : \E updated \in utcnow(created) :
            LET note == Note(NewId(notes), strip(data.title),
                             strip(data.content), CreateTags(data),
                             created, updated)
            IN  /\ notes' = Note_create_note(notes, note.title, note.content,
                                             note.tags, created, updated)
                /\ now' = updated
                /\ resp' = Response("create_note", note.id, data, None, None,
                                    201, "", <<>>,
                                    "Note created successfully", <<note>>,
                                    <<>>)

get_note(note_id) ==
    LET note == Note_get_note_by_id(notes, note_id)
    IN  /\ resp' = IF note = {}
                   THEN Response("get_note", note_id, NoBody, None, None, 404,
                                 "Note not found", <<>>, "", <<>>, <<>>)
                   ELSE Response("get_note", note_id, NoBody, None, None, 200,
                                 "", <<>>, "",
                                 <<CHOOSE r \in note : TRUE>>, <<>>)
        /\ UNCHANGED <<notes, now>>

\* Variants of CannotBeEmpty with a slip in the test: one that compares
\* with '' without stripping, one that tests truthiness first, and one that
\* demands the field as POST does.
CannotBeEmpty_NoStrip(v) == v # None /\ v = <<>>

CannotBeEmpty_IfTruthy(v) == Truthy(v) /\ strip(v) = <<>>

CannotBeEmpty_Required(v) == ~Truthy(v) \/ strip(v) = <<>>

\* PUT rejects a title or content that is given and blank.
CannotBeEmpty(v) == v # None /\ strip(v) = <<>>

\* The argument the PUT handler passes on for a field: v.strip() if v else None.
UpdateArg(v) == IF Truthy(v) THEN strip(v) ELSE None

\* A variant of update_note that reads and validates the body before it
\* looks the note up.
update_note_ValidateFirst(note_id, data) ==
    LET note == Note_get_note_by_id(notes, note_id)
        title == Get(data, "title")
        content == Get(data, "content")
        tags == Get(data, "tags")
        Reject(status, error) ==
            /\ resp' = Response("update_note", note_id, data, None, None,
                                status, error, <<>>, "", <<>>, <<>>)
            /\ UNCHANGED <<notes, now>>
    IN  IF DOMAIN data = {} THEN Reject(400, "No data provided")
        ELSE IF CannotBeEmpty(title) THEN Reject(400, "Title cannot be empty")
        ELSE IF CannotBeEmpty(content) THEN
            Reject(400, "Content cannot be empty")
        ELSE IF note = {} THEN Reject(404, "Note not found")
        ELSE \E t \in FirstReading(now) :
            LET rows == Note_update_note(notes, note_id, UpdateArg(title),
                                         UpdateArg(content), UpdateArg(tags), t)
            IN  /\ notes' = rows
                /\ now' = t
                /\ resp' = Response("update_note", note_id, data, None, None,
                                    200, "", <<>>, "Note updated successfully",
                                    <<CHOOSE r \in rows : r.id = note_id>>,
                                    <<>>)

update_note(note_id, data) ==
    LET note == Note_get_note_by_id(notes, note_id)
        title == Get(data, "title")
        content == Get(data, "content")
        tags == Get(data, "tags")
        Reject(status, error) ==
            /\ resp' = Response("update_note", note_id, data, None, None,
                                status, error, <<>>, "", <<>>, <<>>)
            /\ UNCHANGED <<notes, now>>
    IN  IF note = {} THEN Reject(404, "Note not found")
        ELSE IF DOMAIN data = {} THEN Reject(400, "No data provided")
        ELSE IF CannotBeEmpty(title) THEN Reject(400, "Title cannot be empty")
        ELSE IF CannotBeEmpty(content) THEN
            Reject(400, "Content cannot be empty")
        ELSE \E t \in FirstReading(now) :
            LET rows == Note_update_note(notes, note_id, UpdateArg(title),
                                         UpdateArg(content), UpdateArg(tags), t)
            IN  /\ notes' = rows
                /\ now' = t
                /\ resp' = Response("update_note", note_id, data, None, None,
                                    200, "", <<>>, "Note updated successfully",
                                    <<CHOOSE r \in rows : r.id = note_id>>,
                                    <<>>)

delete_note(note_id) ==
    LET note == Note_get_note_by_id(notes, note_id)
    IN  IF note = {} THEN
            /\ resp' = Response("delete_note", note_id, NoBody, None, None,
                                404, "Note not found", <<>>, "", <<>>, <<>>)
            /\ UNCHANGED <<notes, now>>
        ELSE
            /\ notes' = Note_delete_note(notes, note_id)
            /\ resp' = IF Note_delete_note_returns(notes, note_id)
                       THEN Response("delete_note", note_id, NoBody, None,
                                     None, 200, "", <<>>,
                                     "Note deleted successfully", <<>>, <<>>)
                       ELSE Response("delete_note", note_id, NoBody, None,
                                     None, 500, "Failed to delete note", <<>>,
                                     "", <<>>, <<>>)
            /\ UNCHANGED now

\* Note.delete_note called on the store directly, as src/test_models.py does;
\* the response is the value it returns.
Note_delete_note_call(note_id) ==
    /\ notes' = Note_delete_note(notes, note_id)
    /\ resp' = Response("Note.delete_note", note_id, NoBody, None, None, 0, "",
                        <<>>, "", <<>>, <<>>)
                   @@ [result |-> Note_delete_note_returns(notes, note_id)]
    /\ UNCHANGED now

\* A variant of SelectNotes that tests the tag before the search term.
SelectNotes_TagFirst(rows, search_term, tag_filter) ==
    IF Truthy(tag_filter) THEN Note_get_notes_by_tag(rows, tag_filter)
    ELSE IF Truthy(search_term) THEN Note_search_notes(rows, search_term)
    ELSE Note_get_all_notes(rows)

\* The rows GET /notes selects: search first, then tag, else all.
SelectNotes(rows, search_term, tag_filter) ==
    IF Truthy(search_term) THEN Note_search_notes(rows, search_term)
    ELSE IF Truthy(tag_filter) THEN Note_get_notes_by_tag(rows, tag_filter)
    ELSE Note_get_all_notes(rows)

get_notes(search_term, tag_filter) ==
    /\ \E found \in OrderByCreatedDesc(SelectNotes(notes, search_term,
                                                   tag_filter)) :
        resp' = Response("get_notes", 0, NoBody, search_term, tag_filter, 200,
                         "", <<>>, "", found, <<>>)
    /\ UNCHANGED <<notes, now>>

\* A variant of NoteTags that does not strip the tokens.
NoteTags_NoStrip(tags) ==
    IF Truthy(tags) THEN {split(tags)[i] : i \in 1..Len(split(tags))} ELSE {}

\* The tags one note adds to the set: none unless note.tags is truthy.
NoteTags(tags) ==
    IF Truthy(tags)
    THEN {strip(split(tags)[i]) : i \in 1..Len(split(tags))}
    ELSE {}

AllTags(rows) == UNION {NoteTags(r.tags) : r \in rows}

get_tags ==
    /\ resp' = Response("get_tags", 0, NoBody, None, None, 200, "", <<>>, "",
                        <<>>, sorted(AllTags(Note_get_all_notes(notes))))
    /\ UNCHANGED <<notes, now>>

(***************************************************************************)
(* Requests.  A JSON body is a function from the keys it holds to their    *)
(* values, which are strings here (a null or a number is not sent).        *)
(***************************************************************************)
Absent == <<"Absent">>

Body(title, content, tags) ==
    LET v == [title |-> title, content |-> content, tags |-> tags]
    IN  [k \in {f \in Fields : v[f] # Absent} |-> v[k]]

RawTitles == {<<>>, <<" ", "A", "b">>, <<"a", "_">>}
RawContents == {<<" ">>, <<"b", " ">>, <<"%">>}
RawTags == {<<>>, <<" ", "x">>}

Bodies ==
    {Body(t, c, g) : t \in RawTitles \cup {Absent},
                     c \in RawContents \cup {Absent},
                     g \in RawTags \cup {Absent}}

\* The notes the query requests are run against.
QueryBodies ==
    {Body(<<" ", "A", "b">>, <<"b", " ">>, Absent),
     Body(<<"a", "_">>, <<"%">>, <<"x", ",", " ", "Y">>),
     Body(<<"a", "_">>, <<"b", " ">>, <<" ">>),
     Body(<<" ", "A", "b">>, <<"%">>, <<"x", ",">>)}

\* The bodies that change a note's tags only.
TagBodies == {Body(Absent, Absent, g) : g \in {<<>>, <<" ">>, <<"Y", ",">>}}

SearchTerms == {None, <<>>, <<"a">>, <<"B">>, <<"_">>, <<"%">>}
TagFilters == {None, <<>>, <<"X">>, <<"y">>, <<"_">>, <<",">>}

NoRequest ==
    Response("none", 0, NoBody, None, None, 0, "", <<>>, "", <<>>, <<>>)

Clients == {"A", "B"}

\* A client with no request in flight.
Idle ==
    [pc |-> "idle", op |-> "none", note_id |-> 0, body |-> NoBody,
     note |-> {}, start |-> 0, status |-> 0, error |-> "", errors |-> <<>>,
     message |-> "", data |-> <<>>, seq |-> 0]

Init ==
    /\ notes = {}
    /\ now = 0
    /\ resp = NoRequest
    /\ requests = [c \in Clients |-> Idle]

\* Requests are handled one at a time: the response is returned to the
\* client before the next request is taken up.
Ready == resp = NoRequest

return_response ==
    /\ ~Ready
    /\ resp' = NoRequest
    /\ UNCHANGED <<notes, now>>

\* The write path: POST, PUT, DELETE and GET by id.
Next ==
    \/ \E data \in Bodies : Ready /\ create_note(data) /\ UNCHANGED requests
    \/ \E note_id \in NoteIds : \E data \in Bodies :
        Ready /\ update_note(note_id, data) /\ UNCHANGED requests
    \/ \E note_id \in NoteIds :
        Ready /\ delete_note(note_id) /\ UNCHANGED requests
    \/ \E note_id \in NoteIds : Ready /\ get_note(note_id) /\ UNCHANGED requests
    \/ \E note_id \in NoteIds :
        Ready /\ Note_delete_note_call(note_id) /\ UNCHANGED requests
    \/ return_response /\ UNCHANGED requests

Spec == Init /\ [][Next]_vars

\* The read path: GET /notes and GET /tags over notes made by POST and
\* retagged by PUT.
NextQuery ==
    \/ \E data \in QueryBodies :
        Ready /\ create_note(data) /\ UNCHANGED requests
    \/ \E note_id \in NoteIds : \E data \in TagBodies :
        Ready /\ update_note(note_id, data) /\ UNCHANGED requests
    \/ \E note_id \in NoteIds :
        Ready /\ delete_note(note_id) /\ UNCHANGED requests
    \/ \E note_id \in NoteIds : Ready /\ get_note(note_id) /\ UNCHANGED requests
    \/ \E s \in SearchTerms : \E g \in TagFilters :
        Ready /\ get_notes(s, g) /\ UNCHANGED requests
    \/ Ready /\ get_tags /\ UNCHANGED requests
    \/ return_response /\ UNCHANGED requests

SpecQuery == Init /\ [][NextQuery]_vars

(***************************************************************************)
(* Two requests in flight.  Each request runs in a thread of its own with  *)
(* a session of its own (scoped_session, models.py 13-15).  A handler      *)
(* takes two steps: up to the call of the Note classmethod that writes    *)
(* (body checks and, for PUT and DELETE, the lookup of the note), and      *)
(* that call with its commit and the response.  The other request may      *)
(* take steps in between.                                                  *)
(*                                                                         *)
(* The note the handler looked up stays in its session while the handler   *)
(* holds it, so the lookup the classmethod repeats (Query.get) is answered *)
(* from the session, without a SELECT, and does not see what the other     *)
(* request has committed meanwhile.  At commit the session writes the      *)
(* attributes whose value differs from the one it loaded, by primary key:  *)
(* an UPDATE that matches no row raises StaleDataError, a DELETE that      *)
(* matches no row only warns.                                              *)
(***************************************************************************)
\* A reading by a request that arrived when the clock showed start: later
\* than every reading taken before the request arrived, and not before the
\* readings the other request has taken since.
LaterReading(t, start) == {u \in utcnow(t) : u > start}

\* Query.get in a session that holds note (a set, empty when it holds none).
Session_get(note, rows, note_id) ==
    IF note # {} THEN note ELSE Note_get_note_by_id(rows, note_id)

\* The attributes of the session's note after Note.update_note assigned them.
Assigned(note, title, content, tags, t) ==
    [note EXCEPT !.title = IF title # None THEN title ELSE @,
                 !.content = IF content # None THEN content ELSE @,
                 !.tags = IF tags # None THEN tags ELSE @,
                 !.updated_at = t]

\* UPDATE notes SET <the attributes that changed> WHERE id = note.id.
Flush_update(rows, note, new) ==
    {IF r.id = note.id
        THEN [f \in DOMAIN r |-> IF new[f] # note[f] THEN new[f] ELSE r[f]]
        ELSE r : r \in rows}

\* A variant of Rollback that leaves what the failed transaction wrote.
Rollback_Missing(before, written) == written

\* db_session.rollback() after a failed commit: the table as it was.
Rollback(before, written) == before

Arrived(op, note_id, data) ==
    [Idle EXCEPT !.op = op, !.note_id = note_id, !.body = data]

\* The handler has passed its checks and is about to call the classmethod.
Pending(op, note_id, data, note) ==
    [Arrived(op, note_id, data) EXCEPT !.pc = "store", !.note = note,
                                       !.start = now]

Answer(r, status, error, errors, message, found, seq) ==
    [r EXCEPT !.pc = "done", !.note = {}, !.start = 0, !.status = status,
              !.error = error, !.errors = errors, !.message = message,
              !.data = found, !.seq = seq]

\* The position of the next commit among the commits of the requests shown.
NextSeq == 1 + Cardinality({c \in Clients : requests[c].seq > 0})

Creating == {c \in Clients : requests[c].pc = "store"
                                /\ requests[c].op = "create_note"}

create_note_validate(c, data) ==
    /\ requests[c].pc = "idle"
    /\ IF DOMAIN data = {} THEN
           requests' = [requests EXCEPT ![c] =
               Answer(Arrived("create_note", 0, data), 400,
                      "No data provided", <<>>, "", <<>>, 0)]
       ELSE IF validate_note_data(data) # <<>> THEN
           requests' = [requests EXCEPT ![c] =
               Answer(Arrived("create_note", 0, data), 400, "",
                      validate_note_data(data), "", <<>>, 0)]
       ELSE
           /\ now < MaxClock
           /\ Cardinality(notes) + Cardinality(Creating) < MaxNotes
           /\ requests' = [requests EXCEPT ![c] =
                  Pending("create_note", 0, data, {})]
    /\ UNCHANGED <<notes, now, resp>>

create_note_store(c) ==
    LET r == requests[c]
    IN  /\ r.pc = "store" /\ r.op = "create_note"
        /\ \E created \in LaterReading(now, r.start) :
           \E updated \in utcnow(created) : \E ok \in BOOLEAN :
            LET rows == Note_create_note(notes, strip(r.body.title),
                                         strip(r.body.content),
                                         CreateTags(r.body), created, updated)
            IN  /\ now' = updated
                /\ IF ok THEN
                       /\ notes' = rows
                       /\ requests' = [requests EXCEPT ![c] =
                              Answer(r, 201, "", <<>>,
                                     "Note created successfully",
                                     <<CHOOSE n \in rows : n \notin notes>>,
                                     NextSeq)]
                   ELSE
                       /\ notes' = Rollback(notes, rows)
                       /\ requests' = [requests EXCEPT ![c] =
                              Answer(r, 500, "commit failed", <<>>, "", <<>>,
                                     0)]
        /\ UNCHANGED resp

update_note_lookup(c, note_id, data) ==
    LET note == Note_get_note_by_id(notes, note_id)
        Reject(status, error) ==
            requests' = [requests EXCEPT ![c] =
                Answer(Arrived("update_note", note_id, data), status, error,
                       <<>>, "", <<>>, 0)]
    IN  /\ requests[c].pc = "idle"
        /\ IF note = {} THEN Reject(404, "Note not found")
           ELSE IF DOMAIN data = {} THEN Reject(400, "No data provided")
           ELSE IF CannotBeEmpty(Get(data, "title")) THEN
               Reject(400, "Title cannot be empty")
           ELSE IF CannotBeEmpty(Get(data, "content")) THEN
               Reject(400, "Content cannot be empty")
           ELSE
               /\ now < MaxClock
               /\ requests' = [requests EXCEPT ![c] =
                      Pending("update_note", note_id, data, note)]
        /\ UNCHANGED <<notes, now, resp>>

update_note_store(c) ==
    LET r == requests[c]
        found == Session_get(r.note, notes, r.note_id)
    IN  /\ r.pc = "store" /\ r.op = "update_note"
        /\ IF found = {} THEN
               \* Note.update_note returns None and None.to_dict() raises.
               /\ requests' = [requests EXCEPT ![c] =
                      Answer(r, 500, "AttributeError", <<>>, "", <<>>, 0)]
               /\ UNCHANGED <<notes, now>>
           ELSE
               \E t \in LaterReading(now, r.start) : \E ok \in BOOLEAN :
                LET note == CHOOSE n \in found : TRUE
                    new == Assigned(note, UpdateArg(Get(r.body, "title")),
                                    UpdateArg(Get(r.body, "content")),
                                    UpdateArg(Get(r.body, "tags")), t)
                    rows == Flush_update(notes, note, new)
                IN  /\ now' = t
                    /\ IF Note_get_note_by_id(notes, note.id) = {} THEN
                           /\ notes' = Rollback(notes, rows)
                           /\ requests' = [requests EXCEPT ![c] =
                                  Answer(r, 500, "StaleDataError", <<>>, "",
                                         <<>>, 0)]
                       ELSE IF ~ok THEN
                           /\ notes' = Rollback(notes, rows)
                           /\ requests' = [requests EXCEPT ![c] =
                                  Answer(r, 500, "commit failed", <<>>, "",
                                         <<>>, 0)]
                       ELSE
                           /\ notes' = rows
                           /\ requests' = [requests EXCEPT ![c] =
                                  Answer(r, 200, "", <<>>,
                                         "Note updated successfully",
                                         <<CHOOSE n \in rows : n.id = note.id>>,
                                         NextSeq)]
        /\ UNCHANGED resp

delete_note_lookup(c, note_id) ==
    LET note == Note_get_note_by_id(notes, note_id)
    IN  /\ requests[c].pc = "idle"
        /\ requests' = [requests EXCEPT ![c] =
               IF note = {}
               THEN Answer(Arrived("delete_note", note_id, NoBody), 404,
                           "Note not found", <<>>, "", <<>>, 0)
               ELSE Pending("delete_note", note_id, NoBody, note)]
        /\ UNCHANGED <<notes, now, resp>>

delete_note_store(c) ==
    LET r == requests[c]
        found == Session_get(r.note, notes, r.note_id)
    IN  /\ r.pc = "store" /\ r.op = "delete_note"
        /\ IF found = {} THEN
               /\ requests' = [requests EXCEPT ![c] =
                      Answer(r, 500, "Failed to delete note", <<>>, "", <<>>,
                             0)]
               /\ UNCHANGED notes
           ELSE
               \E ok \in BOOLEAN :
                LET rows == Note_delete_note(notes, r.note_id)
                IN  IF ok THEN
                        /\ notes' = rows
                        /\ requests' = [requests EXCEPT ![c] =
                               Answer(r, 200, "", <<>>,
                                      "Note deleted successfully", <<>>,
                                      NextSeq)]
                    ELSE
                        /\ notes' = Rollback(notes, rows)
                        /\ requests' = [requests EXCEPT ![c] =
                               Answer(r, 500, "commit failed", <<>>, "", <<>>,
                                      0)]
        /\ UNCHANGED <<now, resp>>

\* GET /notes without parameters, which no other step interrupts.
get_notes_all(c) ==
    /\ requests[c].pc = "idle"
    /\ \E found \in OrderByCreatedDesc(SelectNotes(notes, None, None)) :
        requests' = [requests EXCEPT ![c] =
            Answer(Arrived("get_notes", 0, NoBody), 200, "", <<>>, "", found,
                   0)]
    /\ UNCHANGED <<notes, now, resp>>

\* The responses are returned once no request is under way.
return_responses ==
    /\ \A c \in Clients : requests[c].pc # "store"
    /\ \E c \in Clients : requests[c].pc = "done"
    /\ requests' = [c \in Clients |-> Idle]
    /\ UNCHANGED <<notes, now, resp>>

\* One POST body: the notes differ by what the PUTs make of them.
ConcPosts == {Body(<<" ", "A", "b">>, <<"b", " ">>, Absent)}

\* A response is returned while the other request is still under way, and
\* its client is free to send the next request.
return_early(c) ==
    /\ requests[c].pc = "done"
    /\ \E d \in Clients \ {c} : requests[d].pc = "store"
    /\ requests' = [requests EXCEPT ![c] = Idle]
    /\ UNCHANGED <<notes, now, resp>>

ConcPuts ==
    {Body(<<" ", "A", "b">>, <<"b", " ">>, Absent),
     Body(<<"a", "_">>, Absent, <<>>)}

NextConc ==
    \/ \E c \in Clients : \E data \in ConcPosts : create_note_validate(c, data)
    \/ \E c \in Clients : create_note_store(c)
    \/ \E c \in Clients : \E note_id \in NoteIds : \E data \in ConcPuts :
        update_note_lookup(c, note_id, data)
    \/ \E c \in Clients : update_note_store(c)
    \/ \E c \in Clients : \E note_id \in NoteIds :
        delete_note_lookup(c, note_id)
    \/ \E c \in Clients : delete_note_store(c)
    \/ \E c \in Clients : get_notes_all(c)
    \/ \E c \in Clients : return_early(c)
    \/ return_responses

SpecConc == Init /\ [][NextConc]_vars

(***************************************************************************)
(* Properties.  What "contains", "blank" and "token" mean is stated here   *)
(* by position in the string, not by the operators the handlers use.       *)
(***************************************************************************)
Range(q) == {q[i] : i \in DOMAIN q}

\* Every character of s is a space (s trims to the empty string).
AllSpaces(s) == \A i \in 1..Len(s) : s[i] = " "

NonBlank(s) == s # None /\ s # <<>> /\ ~AllSpaces(s)

\* sub occurs in s as a contiguous run of characters.
Contains(s, sub) ==
    \E i \in 1..(Len(s) + 1) :
        /\ i + Len(sub) - 1 <= Len(s)
        /\ SubSeq(s, i, i + Len(sub) - 1) = sub

ContainsNoCase(s, sub) == s # None /\ Contains(lower(s), lower(sub))

\* The comma-separated tokens of s, trimmed: the runs between two commas
\* (or an end of the string) that hold no comma.
TrimmedTokens(s) ==
    {strip(SubSeq(s, i, j)) : <<i, j>> \in
        {p \in (1..(Len(s) + 1)) \X (0..Len(s)) :
            /\ p[2] >= p[1] - 1
            /\ p[1] = 1 \/ s[p[1] - 1] = ","
            /\ p[2] = Len(s) \/ s[p[2] + 1] = ","
            /\ \A k \in p[1]..p[2] : s[k] # ","}}

\* The stored note a response is about.
Stored(rows, note_id) == CHOOSE r \in rows : r.id = note_id

Exists(rows, note_id) == \E r \in rows : r.id = note_id

\* C1: every stored note has a title and a content that are non-empty and
\* non-blank strings, whatever POST, PUT and DELETE requests were made.
C1_TitleContentNeverBlank ==
    \A n \in notes : NonBlank(n.title) /\ NonBlank(n.content)

C1_Witness ==
    /\ resp.op = "update_note" /\ resp.status = 200
    /\ "title" \in DOMAIN resp.body /\ "content" \in DOMAIN resp.body
    /\ Cardinality(notes) = MaxNotes

\* C2 (as claimed): a successful update that supplies only field f sets f
\* to the trimmed supplied value, leaves the other two fields, id and
\* created_at as they were, and makes updated_at strictly greater.
C2_SingleFieldUpdate ==
    [][\A f \in Fields :
        (resp'.op = "update_note" /\ resp'.status = 200
            /\ DOMAIN resp'.body = {f})
        => LET old == Stored(notes, resp'.note_id)
               new == Stored(notes', resp'.note_id)
           IN  /\ Exists(notes, resp'.note_id)
               /\ Exists(notes', resp'.note_id)
               /\ new[f] = strip(resp'.body[f])
               /\ \A g \in Fields \ {f} : new[g] = old[g]
               /\ new.created_at = old.created_at
               /\ new.updated_at > old.updated_at]_vars

\* C3: a PUT on an existing note whose title is supplied and trims to empty
\* is answered 400 'Title cannot be empty'; one whose content is supplied
\* and trims to empty (its title passing) is answered 400 'Content cannot be
\* empty'; either way the table is left exactly as it was.
C3_BlankUpdateRejected ==
    [][(resp'.op = "update_note" /\ Exists(notes, resp'.note_id))
        => LET data == resp'.body
               blankTitle == "title" \in DOMAIN data /\ AllSpaces(data.title)
               blankContent ==
                   "content" \in DOMAIN data /\ AllSpaces(data.content)
           IN  /\ blankTitle =>
                    /\ resp'.status = 400
                    /\ resp'.error = "Title cannot be empty"
                    /\ notes' = notes
               /\ (blankContent /\ ~blankTitle) =>
                    /\ resp'.status = 400
                    /\ resp'.error = "Content cannot be empty"
                    /\ notes' = notes]_vars

C3_Witness ==
    /\ resp.op = "update_note" /\ resp.status = 400
    /\ resp.error = "Title cannot be empty"
    /\ "content" \in DOMAIN resp.body /\ NonBlank(resp.body.content)
    /\ "tags" \in DOMAIN resp.body
    /\ Exists(notes, resp.note_id)

\* C4 (as claimed): after a note is created from a title and a content that
\* are not blank, fetching the returned id gives a record with the trimmed
\* title and content and with created_at equal to updated_at.
C4_CreateThenFetch ==
    (resp.op = "create_note" /\ resp.status = 201)
    => /\ Exists(notes, resp.data[1].id)
       /\ LET n == Stored(Note_get_note_by_id(notes, resp.data[1].id),
                          resp.data[1].id)
          IN  /\ n.title = strip(resp.body.title)
              /\ n.content = strip(resp.body.content)
              /\ n.created_at = n.updated_at

\* C5 (as claimed): a successful PUT that supplies tags stores the trimmed
\* value, the empty string included: after PUT tags = "" the stored tags
\* are the empty string.
C5_EmptyTagsStored ==
    (resp.op = "update_note" /\ resp.status = 200
        /\ "tags" \in DOMAIN resp.body)
    => /\ Exists(notes, resp.note_id)
       /\ Stored(notes, resp.note_id).tags = strip(resp.body.tags)

\* C6 (as claimed): on an existing note, a PUT whose body is any subset of
\* {title, content, tags}, no supplied title or content trimming to empty,
\* is answered 200 with the updated note.
C6_AnySubsetAccepted ==
    [][(resp'.op = "update_note" /\ Exists(notes, resp'.note_id)
            /\ \A f \in DOMAIN resp'.body \cap {"title", "content"} :
                  ~AllSpaces(resp'.body[f]))
        => /\ resp'.status = 200
           /\ resp'.data = <<Stored(notes', resp'.note_id)>>]_vars

\* C6 (amended): as C6 for every subset but the empty one; the empty body
\* is answered 400 'No data provided' and changes nothing.
C6_NonEmptySubsetAccepted ==
    [][(resp'.op = "update_note" /\ Exists(notes, resp'.note_id)
            /\ \A f \in DOMAIN resp'.body \cap {"title", "content"} :
                  ~AllSpaces(resp'.body[f]))
        => IF DOMAIN resp'.body = {}
           THEN /\ resp'.status = 400
                /\ resp'.error = "No data provided"
                /\ notes' = notes
           ELSE /\ resp'.status = 200
                /\ Exists(notes', resp'.note_id)
                /\ resp'.data = <<Stored(notes', resp'.note_id)>>]_vars

C6_Witness ==
    /\ resp.op = "update_note" /\ resp.status = 200
    /\ DOMAIN resp.body = {"content", "tags"}
    /\ resp.data = <<Stored(notes, resp.note_id)>>

\* C7 (as claimed): searchNotes(term) returns exactly the notes whose title
\* or content contains term as a literal substring, case ignored, also for
\* terms that hold '%' or '_'.
C7_SearchLiteralSubstring ==
    (resp.op = "get_notes" /\ Truthy(resp.search))
    => /\ Range(resp.data) =
            {n \in notes : \/ ContainsNoCase(n.title, resp.search)
                           \/ ContainsNoCase(n.content, resp.search)}
       /\ Len(resp.data) = Cardinality(Range(resp.data))

\* C8 (as claimed): getNotesByTag(tag) returns exactly the notes whose tags
\* are not null and contain tag as a substring, case ignored; title and
\* content play no part.
C8_TagSubstring ==
    (resp.op = "get_notes" /\ ~Truthy(resp.search) /\ Truthy(resp.tag))
    => /\ Range(resp.data) =
            {n \in notes : ContainsNoCase(n.tags, resp.tag)}
       /\ Len(resp.data) = Cardinality(Range(resp.data))

\* C9 (as claimed): GET /notes answers searchNotes(search) whenever a search
\* parameter is given, getNotesByTag(tag) when only tag is given, and all
\* notes when neither is; count is the number of notes in data.
C9_ParameterPrecedence ==
    resp.op = "get_notes"
    => LET expected ==
               IF resp.search # None
               THEN Note_search_notes(notes, resp.search)
               ELSE IF resp.tag # None
               THEN Note_get_notes_by_tag(notes, resp.tag)
               ELSE Note_get_all_notes(notes)
       IN  /\ resp.data \in OrderByCreatedDesc(expected)
           /\ resp.count = Len(resp.data)
           /\ resp.status = 200

\* C9 (amended): as C9 with "given" read as "given and not empty": an empty
\* search or tag parameter counts as not given.
C9_NonEmptyParameterPrecedence ==
    resp.op = "get_notes"
    => LET given(v) == v # None /\ Len(v) > 0
           expected ==
               IF given(resp.search)
               THEN Note_search_notes(notes, resp.search)
               ELSE IF given(resp.tag)
               THEN Note_get_notes_by_tag(notes, resp.tag)
               ELSE Note_get_all_notes(notes)
       IN  /\ resp.data \in OrderByCreatedDesc(expected)
           /\ resp.count = Len(resp.data)
           /\ resp.status = 200

C9_Witness ==
    /\ resp.op = "get_notes"
    /\ resp.search = <<"B">> /\ resp.tag = <<"X">>
    /\ Len(resp.data) = 1
    /\ Note_get_notes_by_tag(notes, resp.tag) # {}
    /\ Range(resp.data) # Note_get_notes_by_tag(notes, resp.tag)

\* C10 (as claimed): getAllTags returns, ascending and without duplicates,
\* exactly the trimmed comma-separated tokens of the tags of the notes whose
\* tags are not null; the empty list when no note has tags.
C10_AllTagsOfNonNull ==
    resp.op = "get_tags"
    => /\ \A i, j \in DOMAIN resp.tags :
            i < j => StrLess(resp.tags[i], resp.tags[j])
       /\ Range(resp.tags) =
            UNION {TrimmedTokens(n.tags) : n \in {m \in notes : m.tags # None}}

\* C10 (amended): as C10 over the notes whose tags are neither null nor the
\* empty string.
C10_AllTagsOfNonEmpty ==
    resp.op = "get_tags"
    => /\ \A i, j \in DOMAIN resp.tags :
            i < j => StrLess(resp.tags[i], resp.tags[j])
       /\ Range(resp.tags) =
            UNION {TrimmedTokens(n.tags) :
                       n \in {m \in notes : m.tags # None /\ m.tags # <<>>}}

C10_Witness ==
    /\ resp.op = "get_tags"
    /\ \E n \in notes : n.tags = <<>>
    /\ resp.tags = << <<"Y">>, <<"x">> >>

\* C11: a POST whose body is empty is answered 400 'No data provided'; a POST
\* whose body is not empty and whose title or content is missing or blank is
\* answered 400 with an errors list that holds 'Title is required' exactly
\* when the title is missing or blank and 'Content is required' exactly when
\* the content is missing or blank; a rejected POST leaves the table as it
\* was.
C11_InvalidPostRejected ==
    [][resp'.op = "create_note"
        => LET data == resp'.body
               noTitle == "title" \notin DOMAIN data \/ AllSpaces(data.title)
               noContent ==
                   "content" \notin DOMAIN data \/ AllSpaces(data.content)
           IN  /\ DOMAIN data = {} =>
                    /\ resp'.status = 400
                    /\ resp'.error = "No data provided"
               /\ (DOMAIN data # {} /\ (noTitle \/ noContent)) =>
                    /\ resp'.status = 400
                    /\ "Title is required" \in Range(resp'.errors) <=> noTitle
                    /\ "Content is required" \in Range(resp'.errors)
                           <=> noContent
               /\ resp'.status = 400 => notes' = notes]_vars

C11_Witness ==
    /\ resp.op = "create_note" /\ resp.status = 400
    /\ resp.errors = <<"Title is required", "Content is required">>
    /\ "tags" \in DOMAIN resp.body
    /\ notes # {}

\* C13: a PUT or a DELETE on an id under which no note is stored is answered
\* 404 'Note not found', whatever body the PUT carries (an empty one and one
\* with a blank title included), and leaves the table as it was; a PUT never
\* adds a note.
C13_MissingNoteNotFound ==
    [][/\ (resp'.op \in {"update_note", "delete_note"}
           /\ ~Exists(notes, resp'.note_id))
          => /\ resp'.status = 404
             /\ resp'.error = "Note not found"
             /\ notes' = notes
       /\ resp'.op = "update_note"
          => {r.id : r \in notes'} = {r.id : r \in notes}]_vars

C13_Witness ==
    /\ resp.op = "update_note" /\ resp.status = 404
    /\ "title" \in DOMAIN resp.body /\ AllSpaces(resp.body.title)
    /\ notes # {} /\ ~Exists(notes, resp.note_id)

\* C15: every stored note has updated_at >= created_at (the clock of the
\* model never goes backwards).
C15_UpdatedNotBeforeCreated ==
    \A r \in notes : r.updated_at >= r.created_at

C15_Witness ==
    /\ resp.op = "update_note" /\ resp.status = 200
    /\ \E r \in notes : r.updated_at > r.created_at
    /\ \E r \in notes : r.updated_at = r.created_at

\* C16: a request leaves every stored note under its id with its created_at,
\* unless it is the DELETE (or the direct Note.delete_note) of that note; a
\* PUT leaves every other note exactly as it was; and no two stored notes
\* ever share an id.
C16_IdAndCreatedAtKept ==
    [][/\ \A r \in notes :
            \/ /\ resp'.op \in {"delete_note", "Note.delete_note"}
               /\ resp'.note_id = r.id
            \/ \E s \in notes' : s.id = r.id /\ s.created_at = r.created_at
       /\ resp'.op = "update_note"
          => \A r \in notes : r.id # resp'.note_id => r \in notes'
       /\ \A r, s \in notes' : r.id = s.id => r = s]_vars

C16_Witness ==
    /\ resp.op = "update_note" /\ resp.status = 200
    /\ Cardinality(notes) = 2
    /\ Stored(notes, resp.note_id).updated_at
           > Stored(notes, resp.note_id).created_at + 1

\* C12: once a DELETE has answered 200 the note is in the table no more, so
\* that a lookup of its id finds nothing and no search, tag filter or tag
\* list draws on it; an id that is not in the table stays out of it until a
\* POST creates a note; and GET /notes/{id} of an id that is not in the
\* table answers 404 'Note not found', GET /notes returns stored notes only
\* and GET /tags the tags of stored notes only.
C12_DeletedNoteGone ==
    [][/\ (resp'.op = "delete_note" /\ resp'.status = 200)
          => LET id == resp'.note_id
             IN  /\ Exists(notes, id)
                 /\ Note_get_note_by_id(notes', id) = {}
                 /\ ~Exists(Note_get_all_notes(notes'), id)
                 /\ \A s \in SearchTerms \ {None} :
                        ~Exists(Note_search_notes(notes', s), id)
                 /\ \A g \in TagFilters \ {None} :
                        ~Exists(Note_get_notes_by_tag(notes', g), id)
                 /\ AllTags(notes')
                        = UNION {NoteTags(r.tags) :
                                    r \in {n \in notes : n.id # id}}
       /\ \A id \in NoteIds :
            (~Exists(notes, id) /\ Exists(notes', id))
                => resp'.op = "create_note"
       /\ (resp'.op = "get_note" /\ ~Exists(notes, resp'.note_id))
          => resp'.status = 404 /\ resp'.error = "Note not found"
       /\ resp'.op = "get_notes" => Range(resp'.data) \subseteq notes
       /\ resp'.op = "get_tags" => Range(resp'.tags) = AllTags(notes)]_vars

C12_Witness ==
    /\ resp.op = "delete_note" /\ resp.status = 200
    /\ \E r \in notes : r.id > resp.note_id /\ Truthy(r.tags)

\* C17: Note.delete_note(id) returns True exactly when a note with the id
\* was stored before the call; when it returns True the table afterwards is
\* the table before without that one note, and when it returns False the
\* table is as it was.
C17_DeleteReturnsWhetherStored ==
    [][resp'.op = "Note.delete_note"
        => LET id == resp'.note_id
           IN  /\ resp'.result <=> Exists(notes, id)
               /\ resp'.result => notes' = notes \ {Stored(notes, id)}
               /\ ~resp'.result => notes' = notes]_vars

C17_Witness ==
    /\ resp.op = "Note.delete_note" /\ ~resp.result
    /\ notes # {}

\* C14 (as claimed): GET /notes without parameters returns every stored note
\* exactly once, by created_at descending, and two notes with the same
\* created_at in ascending order of id.
C14_AllNotesOrderedTiesById ==
    \A c \in Clients :
        (requests[c].pc = "done" /\ requests[c].op = "get_notes")
        => LET q == requests[c].data
           IN  /\ \A i, j \in DOMAIN q : i # j => q[i] # q[j]
               /\ (\A d \in Clients \ {c} : requests[d].pc = "idle")
                    => Range(q) = notes
               /\ \A i, j \in DOMAIN q : i < j =>
                    \/ q[i].created_at > q[j].created_at
                    \/ /\ q[i].created_at = q[j].created_at
                       /\ q[i].id < q[j].id

\* C18: when the commit of a POST, PUT or DELETE fails, the request is
\* answered 500, and a request answered 500 leaves the table exactly as it
\* was before its write, so that the requests after it see the notes stored
\* before it.
C18_FailedCommitLeavesNoTrace ==
    [][\A c \in Clients :
        (requests[c].pc = "store" /\ requests'[c].pc = "done")
        => /\ requests'[c].error = "commit failed"
                => requests'[c].status = 500
           /\ requests'[c].status = 500 => notes' = notes
           /\ notes' # notes => requests'[c].status \in {200, 201}]_vars

C18_Witness ==
    \E c \in Clients : \E d \in Clients \ {c} :
        /\ requests[c].pc = "done" /\ requests[c].op = "update_note"
        /\ requests[c].status = 500 /\ requests[c].error = "commit failed"
        /\ requests[d].pc = "done" /\ requests[d].op = "create_note"
        /\ requests[d].error = "commit failed"
        /\ notes # {}

\* C19 (as claimed): when two PUTs on the same stored note have both passed
\* their checks and both commits went through, both are answered 200 and
\* the note holds, in each field both bodies supply, the trimmed value of
\* the PUT that committed last, in each field one body supplies, the
\* trimmed value of that body, and in each field neither supplies, the
\* value it had.
C19_ConcurrentPutsLastWriteWins ==
    \A c \in Clients : \A d \in Clients \ {c} :
        LET first == requests[c]
            last == requests[d]
        IN  (/\ first.pc = "done" /\ last.pc = "done"
             /\ first.op = "update_note" /\ last.op = "update_note"
             /\ first.note_id = last.note_id
             /\ first.status \in {200, 500} /\ last.status \in {200, 500}
             /\ first.error # "commit failed" /\ last.error # "commit failed"
             /\ first.seq <= last.seq)
            => /\ first.status = 200 /\ last.status = 200
               /\ Exists(notes, last.note_id)
               /\ \A f \in Fields :
                    LET v == Stored(notes, last.note_id)[f]
                    IN  IF f \in DOMAIN last.body
                            THEN v = strip(last.body[f])
                        ELSE IF f \in DOMAIN first.body
                            THEN v = strip(first.body[f])
                        ELSE v = first.data[1][f]

\* C20 (as claimed): when a DELETE is answered after it passed the lookup,
\* no note with another id is removed; if the other request is a DELETE of
\* the same note that was answered 200 and the commit did not fail, this one
\* is answered 500, so that at most one of the two gets 200 'Note deleted
\* successfully'; and once one of them got 200 the note is gone.
C20_ConcurrentDeletesOneSucceeds ==
    [][\A c \in Clients : \A d \in Clients \ {c} :
        (/\ requests[c].pc = "store" /\ requests[c].op = "delete_note"
         /\ requests'[c].pc = "done")
        => LET mine == requests'[c]
               other == requests'[d]
               same == /\ other.pc = "done" /\ other.op = "delete_note"
                       /\ other.note_id = mine.note_id
           IN  /\ \A n \in notes : n.id # mine.note_id => n \in notes'
               /\ (same /\ other.status = 200
                        /\ mine.error # "commit failed")
                    => /\ mine.status = 500
                       /\ mine.message # "Note deleted successfully"
               /\ (mine.status = 200 \/ (same /\ other.status = 200))
                    => ~Exists(notes', mine.note_id)]_vars

\* C21 (as claimed): when a PUT that passed its lookup reaches its store
\* update after another request has deleted the note it looked up (no
\* stored note has that id and that created_at any more), it is not
\* answered 200, the deleted note is not stored again, and every stored
\* note is exactly as it was.
C21_PutAfterConcurrentDelete ==
    [][\A c \in Clients :
        (/\ requests[c].pc = "store" /\ requests[c].op = "update_note"
         /\ requests'[c].pc = "done"
         /\ \A m \in requests[c].note : \A n \in notes :
                n.id = m.id => n.created_at # m.created_at)
        => /\ requests'[c].status # 200
           /\ \A m \in requests[c].note : \A n \in notes' :
                n.id = m.id => n.created_at # m.created_at
           /\ notes' = notes]_vars

=============================================================================
